---- MODULE Spec2Model ----
\* Model of src/structures/tss.rs: the 64-bit Task State Segment record, its
\* constructor, the owner's accesses to its public fields, and the validation
\* of an I/O permission bitmap (IOPB) that reports an InvalidIoMap error.
EXTENDS Integers, Sequences, FiniteSets, TLC

\* ------------------------------------------------------------------ bounds
\* Number of operations performed on the record in one run.
MaxOps == 3

\* ------------------------------------------------------- program constants
\* privilege_stack_table: [VirtAddr; 3]
PRIVILEGE_STACK_TABLE_LEN == 3
\* interrupt_stack_table: [VirtAddr; 7]
INTERRUPT_STACK_TABLE_LEN == 7
\* "It must not exceed `0xDFFF`" / "within `0xdfff` bytes of the start of the TSS"
IOMAP_BASE_MAX == 57343
\* "The IO permissions bitmap exceeds the maximum length (8193)"
IOMAP_MAX_LEN == 8193
\* "The final byte of the IO permissions bitmap was not 0xff"
TERMINATING_BYTE == 255
\* u16 / u8 moduli
U16_MOD == 65536
U8_MOD == 256

\* ------------------------------------------------------------ input values
\* VirtAddr values the owner installs (0 is VirtAddr::zero(), 0x7FFF_F000 is a
\* canonical lower-half address whose low four bytes are 00 F0 FF 7F).
Addrs == {0, 2147479552}
\* u16 values the owner stores in iomap_base: 0, 0x64, 0x65, 0xDFFF, 0xE000.
Bases == {0, 100, 101, 57343, 57344}
\* usize bitmap lengths: 1, 8193, 8194, 0x12002 (= 8194 mod 2^16).
Lens == {1, 8193, 8194, 73730}
\* usize distances: 0x64, 0xDFFF, 0xE000, 0x10064 (= 0x64 mod 2^16).
Distances == {100, 57343, 57344, 65636}
\* u8 terminating bytes: 0x00, 0x80, 0xFF.
Bytes == {0, 128, 255}

\* ------------------------------------------------------------------- state
VARIABLES
    tss,      \* the TaskStateSegment record the owner holds
    op,       \* the operation that produced the current state
    nops,     \* operations performed so far
    desc,     \* the IOPB descriptor of the most recent validation
    result    \* the outcome of the most recent validation

vars == <<tss, op, nops, desc, result>>

NoDesc == [len |-> 0, distance |-> 0, byte |-> 0, none |-> TRUE]
NoResult == [kind |-> "None"]

\* ---------------------------------------------------------- the record type
\* VirtAddr::zero()
VirtAddr_zero == 0

\* new() with iomap_base set to the size of the record ("no bitmap follows").
new_sized ==
    [ reserved_1 |-> 0,
      privilege_stack_table |-> [i \in 0..(PRIVILEGE_STACK_TABLE_LEN - 1) |-> VirtAddr_zero],
      reserved_2 |-> 0,
      interrupt_stack_table |-> [i \in 0..(INTERRUPT_STACK_TABLE_LEN - 1) |-> VirtAddr_zero],
      reserved_3 |-> 0,
      reserved_4 |-> 0,
      iomap_base |-> 104 ]

\* new() with iomap_base set to 0xFFFF ("beyond the segment limit").
new_ffff ==
    [ reserved_1 |-> 0,
      privilege_stack_table |-> [i \in 0..(PRIVILEGE_STACK_TABLE_LEN - 1) |-> VirtAddr_zero],
      reserved_2 |-> 0,
      interrupt_stack_table |-> [i \in 0..(INTERRUPT_STACK_TABLE_LEN - 1) |-> VirtAddr_zero],
      reserved_3 |-> 0,
      reserved_4 |-> 0,
      iomap_base |-> 65535 ]

\* new() with the initialisers of the two adjacent u16 fields exchanged, the
\* size of the record landing in reserved_4.
new_swapped ==
    [ reserved_1 |-> 0,
      privilege_stack_table |-> [i \in 0..(PRIVILEGE_STACK_TABLE_LEN - 1) |-> VirtAddr_zero],
      reserved_2 |-> 0,
      interrupt_stack_table |-> [i \in 0..(INTERRUPT_STACK_TABLE_LEN - 1) |-> VirtAddr_zero],
      reserved_3 |-> 0,
      reserved_4 |-> 104,
      iomap_base |-> 0 ]

\* TaskStateSegment::new(): every stack slot zero, iomap_base zero, reserved zero.
new ==
    [ reserved_1 |-> 0,
      privilege_stack_table |-> [i \in 0..(PRIVILEGE_STACK_TABLE_LEN - 1) |-> VirtAddr_zero],
      reserved_2 |-> 0,
      interrupt_stack_table |-> [i \in 0..(INTERRUPT_STACK_TABLE_LEN - 1) |-> VirtAddr_zero],
      reserved_3 |-> 0,
      reserved_4 |-> 0,
      iomap_base |-> 0 ]

\* #[derive(Clone, Copy)]: a field-by-field copy of the record.
clone(t) ==
    [ reserved_1 |-> t.reserved_1,
      privilege_stack_table |-> [i \in DOMAIN t.privilege_stack_table |-> t.privilege_stack_table[i]],
      reserved_2 |-> t.reserved_2,
      interrupt_stack_table |-> [i \in DOMAIN t.interrupt_stack_table |-> t.interrupt_stack_table[i]],
      reserved_3 |-> t.reserved_3,
      reserved_4 |-> t.reserved_4,
      iomap_base |-> t.iomap_base ]

\* ------------------------------------------------------------------ layout
\* The fields in declaration order with the size and natural alignment of
\* their types (u32, [u64; 3], u64, [u64; 7], u64, u16, u16).
Fields ==
    << [name |-> "reserved_1",            size |-> 4,  align |-> 4],
       [name |-> "privilege_stack_table", size |-> 24, align |-> 8],
       [name |-> "reserved_2",            size |-> 8,  align |-> 8],
       [name |-> "interrupt_stack_table", size |-> 56, align |-> 8],
       [name |-> "reserved_3",            size |-> 8,  align |-> 8],
       [name |-> "reserved_4",            size |-> 2,  align |-> 2],
       [name |-> "iomap_base",            size |-> 2,  align |-> 2] >>

\* repr(C) without `packed`: every field at its natural alignment.
FieldAlign_natural(f) == f.align

\* #[repr(C, packed)]: every field has alignment 1.
FieldAlign(f) == 1

AlignUp(n, a) == ((n + a - 1) \div a) * a

Max(a, b) == IF a >= b THEN a ELSE b

\* repr(C): each field is placed at the end of the previous one, rounded up to
\* the field's alignment.
RECURSIVE OffsetOf(_)
OffsetOf(i) ==
    IF i = 1 THEN 0
    ELSE AlignUp(OffsetOf(i - 1) + Fields[i - 1].size, FieldAlign(Fields[i]))

RECURSIVE StructAlign(_)
StructAlign(i) ==
    IF i = 0 THEN 1 ELSE Max(FieldAlign(Fields[i]), StructAlign(i - 1))

\* size_of::<TaskStateSegment>()
SizeOf ==
    AlignUp(OffsetOf(Len(Fields)) + Fields[Len(Fields)].size, StructAlign(Len(Fields)))

FieldIndex(name) == CHOOSE i \in 1..Len(Fields) : Fields[i].name = name

offset_of(name) == OffsetOf(FieldIndex(name))

\* Little-endian byte k of an unsigned value.
RECURSIVE ByteOf(_, _)
ByteOf(v, k) == IF k = 0 THEN v % U8_MOD ELSE ByteOf(v \div U8_MOD, k - 1)

\* Byte k of field number i of record t (arrays are 8-byte elements in order).
FieldByte(t, i, k) ==
    CASE Fields[i].name = "reserved_1" -> ByteOf(t.reserved_1, k)
      [] Fields[i].name = "privilege_stack_table" ->
            ByteOf(t.privilege_stack_table[k \div 8], k % 8)
      [] Fields[i].name = "reserved_2" -> ByteOf(t.reserved_2, k)
      [] Fields[i].name = "interrupt_stack_table" ->
            ByteOf(t.interrupt_stack_table[k \div 8], k % 8)
      [] Fields[i].name = "reserved_3" -> ByteOf(t.reserved_3, k)
      [] Fields[i].name = "reserved_4" -> ByteOf(t.reserved_4, k)
      [] Fields[i].name = "iomap_base" -> ByteOf(t.iomap_base, k)

\* The bytes of the record as the processor reads them (padding reads as 0).
Image(t) ==
    [o \in 0..(SizeOf - 1) |->
        IF \E i \in 1..Len(Fields) : OffsetOf(i) <= o /\ o < OffsetOf(i) + Fields[i].size
        THEN LET i == CHOOSE j \in 1..Len(Fields) :
                          OffsetOf(j) <= o /\ o < OffsetOf(j) + Fields[j].size
             IN FieldByte(t, i, o - OffsetOf(i))
        ELSE 0]

\* The n-byte little-endian unsigned value at offset off of an image.
RECURSIVE ReadLE(_, _, _)
ReadLE(img, off, n) ==
    IF n = 0 THEN 0
    ELSE (IF off \in DOMAIN img THEN img[off] ELSE 0) + U8_MOD * ReadLE(img, off + 1, n - 1)

\* -------------------------------------------------------------- error type
\* TooFarFromTss with a 16-bit distance field.
TooFarFromTss_u16(distance) == [kind |-> "TooFarFromTss", distance |-> distance % U16_MOD]

\* InvalidIoMap::TooFarFromTss { distance: usize }
TooFarFromTss(distance) == [kind |-> "TooFarFromTss", distance |-> distance]

\* InvalidTerminatingByte with a signed byte field (i8).
InvalidTerminatingByte_i8(byte) ==
    [kind |-> "InvalidTerminatingByte", byte |-> IF byte >= 128 THEN byte - U8_MOD ELSE byte]

\* InvalidIoMap::InvalidTerminatingByte { byte: u8 }
InvalidTerminatingByte(byte) == [kind |-> "InvalidTerminatingByte", byte |-> byte]

\* TooLong with a 16-bit length field.
TooLong_u16(len) == [kind |-> "TooLong", len |-> len % U16_MOD]

\* InvalidIoMap::TooLong { len: usize }
TooLong(len) == [kind |-> "TooLong", len |-> len]

\* InvalidBase with 8-bit fields.
InvalidBase_u8(expected, got) ==
    [kind |-> "InvalidBase", expected |-> expected % U8_MOD, got |-> got % U8_MOD]

\* InvalidIoMap::InvalidBase { expected: u16, got: u16 }
InvalidBase(expected, got) ==
    [kind |-> "InvalidBase", expected |-> expected % U16_MOD, got |-> got % U16_MOD]

Ok == [kind |-> "Ok"]

\* -------------------------------------------------------------- validation
\* The validator with an off-by-one length bound (8193 rejected).
validate_len_off_by_one(len, distance, byte, iomap_base) ==
    IF len >= IOMAP_MAX_LEN THEN TooLong(len)
    ELSE IF distance > IOMAP_BASE_MAX THEN TooFarFromTss(distance)
    ELSE IF byte # TERMINATING_BYTE THEN InvalidTerminatingByte(byte)
    ELSE IF iomap_base # distance % U16_MOD THEN InvalidBase(distance % U16_MOD, iomap_base)
    ELSE Ok

\* The validator with the content checks first and the placement bound last.
validate_reordered(len, distance, byte, iomap_base) ==
    IF len > IOMAP_MAX_LEN THEN TooLong(len)
    ELSE IF byte # TERMINATING_BYTE THEN InvalidTerminatingByte(byte)
    ELSE IF iomap_base # distance % U16_MOD THEN InvalidBase(distance % U16_MOD, iomap_base)
    ELSE IF distance > IOMAP_BASE_MAX THEN TooFarFromTss(distance)
    ELSE Ok

\* The IOPB validator: sequential checks, returning at the first violated rule
\* (length bound, placement bound, terminating byte, base consistency).
validate(len, distance, byte, iomap_base) ==
    IF len > IOMAP_MAX_LEN THEN TooLong(len)
    ELSE IF distance > IOMAP_BASE_MAX THEN TooFarFromTss(distance)
    ELSE IF byte # TERMINATING_BYTE THEN InvalidTerminatingByte(byte)
    ELSE IF iomap_base # distance % U16_MOD THEN InvalidBase(distance % U16_MOD, iomap_base)
    ELSE Ok

\* ----------------------------------------------------------------- actions
Init ==
    /\ tss = new
    /\ op = "new"
    /\ nops = 0
    /\ desc = NoDesc
    /\ result = NoResult

\* let tss = TaskStateSegment::new();
CallNew ==
    /\ nops < MaxOps
    /\ tss' = new
    /\ op' = "new"
    /\ nops' = nops + 1
    /\ UNCHANGED <<desc, result>>

\* tss.privilege_stack_table[i] = addr;
WritePrivilegeStack ==
    /\ nops < MaxOps
    /\ \E i \in 0..(PRIVILEGE_STACK_TABLE_LEN - 1), addr \in Addrs :
          tss' = [tss EXCEPT !.privilege_stack_table[i] = addr]
    /\ op' = "write_privilege_stack_table"
    /\ nops' = nops + 1
    /\ UNCHANGED <<desc, result>>

\* tss.interrupt_stack_table[i] = addr;
WriteInterruptStack ==
    /\ nops < MaxOps
    /\ \E i \in 0..(INTERRUPT_STACK_TABLE_LEN - 1), addr \in Addrs :
          tss' = [tss EXCEPT !.interrupt_stack_table[i] = addr]
    /\ op' = "write_interrupt_stack_table"
    /\ nops' = nops + 1
    /\ UNCHANGED <<desc, result>>

\* tss.iomap_base = base;   (no validation on write)
WriteIomapBase ==
    /\ nops < MaxOps
    /\ \E base \in Bases : tss' = [tss EXCEPT !.iomap_base = base]
    /\ op' = "write_iomap_base"
    /\ nops' = nops + 1
    /\ UNCHANGED <<desc, result>>

\* let tss = tss.clone();   (the owner goes on with the copy)
CopyTss ==
    /\ nops < MaxOps
    /\ tss' = clone(tss)
    /\ op' = "clone"
    /\ nops' = nops + 1
    /\ UNCHANGED <<desc, result>>

\* Validation of a candidate bitmap against the record's stored iomap_base.
Validate ==
    /\ nops < MaxOps
    /\ \E len \in Lens, distance \in Distances, byte \in Bytes :
          /\ desc' = [len |-> len, distance |-> distance, byte |-> byte, none |-> FALSE]
          /\ result' = validate(len, distance, byte, tss.iomap_base)
    /\ op' = "validate"
    /\ nops' = nops + 1
    /\ UNCHANGED tss

Next ==
    \/ CallNew
    \/ WritePrivilegeStack
    \/ WriteInterruptStack
    \/ WriteIomapBase
    \/ CopyTss
    \/ Validate

Spec == Init /\ [][Next]_vars

TypeOK ==
    /\ tss.iomap_base \in 0..(U16_MOD - 1)
    /\ \A i \in DOMAIN tss.privilege_stack_table : tss.privilege_stack_table[i] \in Addrs
    /\ \A i \in DOMAIN tss.interrupt_stack_table : tss.interrupt_stack_table[i] \in Addrs
    /\ nops \in 0..MaxOps
    /\ result.kind \in {"None", "Ok", "TooLong", "TooFarFromTss", "InvalidTerminatingByte", "InvalidBase"}

\* ------------------------------------------------------------------ claims
\* The state was produced by a validation call: desc holds its descriptor,
\* tss.iomap_base the stored base it read, result its outcome.
Validated == op = "validate"

LengthOk == desc.len <= 8193
PlacementOk == desc.distance <= 57343
TerminatorOk == desc.byte = 255
BaseOk == tss.iomap_base = desc.distance

\* C1: every descriptor with length <= 8193, distance <= 0xDFFF, terminating
\* byte 0xFF and stored iomap_base equal to the distance validates successfully.
C1_ValidAccepted ==
    (Validated /\ LengthOk /\ PlacementOk /\ TerminatorOk /\ BaseOk) => result = Ok

\* C1 witness: length 8193, distance 0x64, byte 0xFF, stored base 0x64, accepted.
C1_Witness ==
    /\ Validated
    /\ desc.len = 8193 /\ desc.distance = 100 /\ desc.byte = 255
    /\ tss.iomap_base = 100
    /\ result.kind = "Ok"

\* C2: validation yields exactly one outcome: success only when no rule is
\* violated, otherwise the error of the first violated rule in the order
\* length, placement, terminating byte, base.
C2_FirstViolationWins ==
    Validated =>
        /\ (result.kind = "Ok") <=> (LengthOk /\ PlacementOk /\ TerminatorOk /\ BaseOk)
        /\ (result.kind = "TooLong") <=> ~LengthOk
        /\ (result.kind = "TooFarFromTss") <=> (LengthOk /\ ~PlacementOk)
        /\ (result.kind = "InvalidTerminatingByte") <=>
               (LengthOk /\ PlacementOk /\ ~TerminatorOk)
        /\ (result.kind = "InvalidBase") <=>
               (LengthOk /\ PlacementOk /\ TerminatorOk /\ ~BaseOk)
        /\ result.kind \in {"Ok", "TooLong", "TooFarFromTss",
                            "InvalidTerminatingByte", "InvalidBase"}

\* C2 witness: a distance above 0xDFFF together with a bad terminating byte and
\* a stored base that differs from the distance reports TooFarFromTss.
C2_Witness ==
    /\ Validated
    /\ LengthOk /\ ~PlacementOk /\ ~TerminatorOk /\ ~BaseOk
    /\ result.kind = "TooFarFromTss"

\* C3: every input with length > 8193 reports TooLong carrying exactly that
\* length, whatever the distance, the terminating byte and the stored base.
C3_TooLong ==
    (Validated /\ desc.len > 8193) => result = [kind |-> "TooLong", len |-> desc.len]

\* C3 witness: length 8194 with a distance above 0xDFFF reports TooLong{8194}.
C3_Witness ==
    /\ Validated
    /\ desc.len = 8194 /\ desc.distance > 57343
    /\ result.kind = "TooLong" /\ result.len = 8194

\* C4: every input with distance > 0xDFFF, length <= 8193 and terminating byte
\* 0xFF reports TooFarFromTss carrying exactly that distance, whatever the
\* stored base; a distance of 0xDFFF or less is never rejected by this rule.
C4_TooFarFromTss ==
    /\ (Validated /\ desc.distance > 57343 /\ desc.len <= 8193 /\ desc.byte = 255)
          => result = [kind |-> "TooFarFromTss", distance |-> desc.distance]
    /\ (Validated /\ desc.distance <= 57343) => result.kind # "TooFarFromTss"

\* C4 witness: distance 0xE000 with length 8193 reports TooFarFromTss{0xE000}.
C4_Witness ==
    /\ Validated
    /\ desc.len = 8193 /\ desc.distance = 57344 /\ desc.byte = 255
    /\ result.kind = "TooFarFromTss" /\ result.distance = 57344

\* C5: every input with terminating byte # 0xFF, length <= 8193 and distance
\* <= 0xDFFF reports InvalidTerminatingByte carrying the observed byte, whether
\* or not the stored base equals the distance.
C5_InvalidTerminatingByte ==
    (Validated /\ desc.byte # 255 /\ desc.len <= 8193 /\ desc.distance <= 57343)
        => result = [kind |-> "InvalidTerminatingByte", byte |-> desc.byte]

\* C5 witness: terminating byte 0x00 with a stored base that differs from the
\* distance reports InvalidTerminatingByte{0}.
C5_Witness ==
    /\ Validated
    /\ desc.byte = 0 /\ desc.len <= 8193 /\ desc.distance <= 57343
    /\ tss.iomap_base # desc.distance
    /\ result.kind = "InvalidTerminatingByte" /\ result.byte = 0

\* C6: every input that passes the first three checks with a stored base that
\* differs from the distance reports InvalidBase with expected equal to the
\* (untruncated) distance and got equal to the stored base.
C6_InvalidBase ==
    (Validated /\ desc.len <= 8193 /\ desc.distance <= 57343 /\ desc.byte = 255
         /\ tss.iomap_base # desc.distance)
        => result = [kind |-> "InvalidBase", expected |-> desc.distance,
                     got |-> tss.iomap_base]

\* C6 witness: distance 0x64 with stored base 0x65 reports InvalidBase{0x64, 0x65}.
C6_Witness ==
    /\ Validated
    /\ desc.len <= 8193 /\ desc.distance = 100 /\ desc.byte = 255
    /\ tss.iomap_base = 101
    /\ result.kind = "InvalidBase" /\ result.expected = 100 /\ result.got = 101

\* C7: the record returned by new() has every privilege_stack_table and
\* interrupt_stack_table slot equal to the null address and iomap_base 0; the
\* call returns a record, never an error.
C7_NewIsZeroed ==
    op = "new" =>
        /\ DOMAIN tss.privilege_stack_table = 0..2
        /\ DOMAIN tss.interrupt_stack_table = 0..6
        /\ \A i \in 0..2 : tss.privilege_stack_table[i] = 0
        /\ \A i \in 0..6 : tss.interrupt_stack_table[i] = 0
        /\ tss.iomap_base = 0

\* C7 witness: new() called after earlier operations returned the zeroed record.
C7_Witness ==
    /\ op = "new" /\ nops > 0
    /\ tss.iomap_base = 0
    /\ \A i \in 0..6 : tss.interrupt_stack_table[i] = 0

\* C8: the fields lie in declaration order without padding: reserved_1 at 0,
\* privilege_stack_table at 4, reserved_2 at 28, interrupt_stack_table at 36,
\* reserved_3 and reserved_4 from 92, iomap_base at 102, 104 bytes in all; the
\* bytes of the record hold each field's value at that offset.
C8_Layout ==
    /\ offset_of("reserved_1") = 0
    /\ offset_of("privilege_stack_table") = 4
    /\ offset_of("reserved_2") = 28
    /\ offset_of("interrupt_stack_table") = 36
    /\ offset_of("reserved_3") = 92
    /\ offset_of("reserved_4") = 100
    /\ offset_of("iomap_base") = 102
    /\ SizeOf = 104
    /\ LET img == Image(tss) IN
          /\ DOMAIN img = 0..103
          /\ ReadLE(img, 0, 4) = tss.reserved_1
          /\ \A i \in 0..2 : ReadLE(img, 4 + 8 * i, 8) = tss.privilege_stack_table[i]
          /\ ReadLE(img, 28, 8) = tss.reserved_2
          /\ \A i \in 0..6 : ReadLE(img, 36 + 8 * i, 8) = tss.interrupt_stack_table[i]
          /\ ReadLE(img, 92, 8) = tss.reserved_3
          /\ ReadLE(img, 100, 2) = tss.reserved_4
          /\ ReadLE(img, 102, 2) = tss.iomap_base

\* C8 witness: with iomap_base 0xDFFF and the last IST slot 0x7FFFF000 stored,
\* bytes 102..103 read FF DF and bytes 84..87 read 00 F0 FF 7F.
C8_Witness ==
    /\ tss.iomap_base = 57343
    /\ tss.interrupt_stack_table[6] = 2147479552
    /\ Image(tss)[102] = 255 /\ Image(tss)[103] = 223
    /\ Image(tss)[84] = 0 /\ Image(tss)[85] = 240
    /\ Image(tss)[86] = 255 /\ Image(tss)[87] = 127

\* C9 as stated: after new() and any owner writes, iomap_base <= 0xDFFF.
C9_Original == tss.iomap_base <= 57343

\* C9 amended: iomap_base is at most 0xDFFF after new() and stays so under
\* every operation except a write to iomap_base itself, which stores any
\* 16-bit value unchecked.
C9_BoundedUntilBaseWritten ==
    /\ tss.iomap_base <= 57343
    /\ [][ /\ (op' = "new" => tss'.iomap_base <= 57343)
           /\ (op' # "write_iomap_base" /\ tss.iomap_base <= 57343)
                 => tss'.iomap_base <= 57343
           /\ tss'.iomap_base <= 65535 ]_vars

\* C9 witness: a bounded base written by the owner survives a later stack write.
C9_Witness ==
    /\ op = "write_interrupt_stack_table"
    /\ tss.iomap_base = 57343
    /\ tss.interrupt_stack_table[0] # 0

\* C10: the four reserved fields are zero after new() and after every owner
\* operation (stack writes, base writes, copies, validation).
C10_ReservedZero ==
    /\ tss.reserved_1 = 0
    /\ tss.reserved_2 = 0
    /\ tss.reserved_3 = 0
    /\ tss.reserved_4 = 0

\* C10 witness: a record with a stack slot and the base written, then copied,
\* still has zero reserved fields.
C10_Witness ==
    /\ op = "clone"
    /\ tss.iomap_base # 0
    /\ \E i \in 0..2 : tss.privilege_stack_table[i] # 0
    /\ tss.reserved_1 = 0 /\ tss.reserved_2 = 0
    /\ tss.reserved_3 = 0 /\ tss.reserved_4 = 0

====
